---- MODULE Spec2Model ----
(***************************************************************************)
(* Supplementary group IDs (kernel/groups.c): the group_info container,   *)
(* its Shell sort, the sorted-subset test, the installer                  *)
(* (set_groups_sorted), the privilege gate (set_current_groups) and the   *)
(* setgroups entry point.                                                 *)
(*                                                                         *)
(* A group_info is a heap slot: [state, usage, ngroups, gids, uaf, pub];   *)
(* pub records that a committed credential has referenced it.             *)
(* GROUP_AT(gi, i) is gids[i + 1].                                         *)
(***************************************************************************)
EXTENDS Integers, Sequences, FiniteSets, TLC

\* ------------------------------------------------------------------ bounds
MaxGid == 2        \* group identifiers are 1..MaxGid
MaxLen == 2        \* longest group list a caller builds
MaxSets == 2       \* group_info objects ever allocated
MaxSortLen == 5    \* longest list handed to groups_sort on its own
MaxSubLen == 3     \* longest list handed to is_subset on its own
NThreads == 2      \* threads of the interleaved runs
MaxBlocks == 2     \* most pages one groups_alloc asks for

\* --------------------------------------------------------- program constants
NGROUPS_MAX == 65536
NGROUPS_SMALL == 32          \* entries of small_block
NGROUPS_PER_BLOCK == 1024    \* PAGE_SIZE / sizeof(kgid_t)
EPERM == 1
ENOMEM == 12
EFAULT == 14
EINVAL == 22
AID_SDCARD_RW == 1015
AID_SDCARD_R == 1028

Gids == 1..MaxGid
Slots == 1..MaxSets
Threads == 1..NThreads
NULL == 0
INVALID_GID == -1

SeqsUpTo(S, n) == UNION {[1..k -> S] : k \in 0..n}

\* the elements of a list, as a set
Elems(s) == {s[k] : k \in 1..Len(s)}

\* non-decreasing order, stated without reference to groups_sort
IsSorted(s) == \A k \in 1..(Len(s) - 1) : s[k] <= s[k + 1]

\* number of occurrences of v in s
Occurs(s, v) == Cardinality({k \in 1..Len(s) : s[k] = v})

SameMultiset(s, t) ==
    /\ Len(s) = Len(t)
    /\ \A v \in Elems(s) \cup Elems(t) : Occurs(s, v) = Occurs(t, v)

\* ------------------------------------------------------------- groups_sort
\* for (stride = 1; stride < gidsetsize; stride = 3 * stride + 1) ;
RECURSIVE StrideUp(_, _)
StrideUp(stride, gidsetsize) ==
    IF stride < gidsetsize THEN StrideUp(3 * stride + 1, gidsetsize) ELSE stride

\* the comparison of the inner loop turned round (gid_lt for gid_gt)
SortOutOfOrder_lt(l, tmp) == l < tmp

\* gid_gt(GROUP_AT(group_info, left), tmp)
SortOutOfOrder(l, tmp) == l > tmp

\* the inner while loop stopping one short of index 0 (left > 0)
RECURSIVE SortShift_short(_, _, _, _, _)
SortShift_short(s, left, right, stride, tmp) ==
    IF left > 0 /\ s[left + 1] > tmp
    THEN SortShift_short([s EXCEPT ![right + 1] = s[left + 1]], left - stride, left, stride, tmp)
    ELSE [s EXCEPT ![right + 1] = tmp]

\* the inner while loop and the store of tmp that follows it
RECURSIVE SortShift(_, _, _, _, _)
SortShift(s, left, right, stride, tmp) ==
    IF left >= 0 /\ SortOutOfOrder(s[left + 1], tmp)
    THEN SortShift([s EXCEPT ![right + 1] = s[left + 1]], left - stride, left, stride, tmp)
    ELSE [s EXCEPT ![right + 1] = tmp]

\* for (base = 0; base < max; base++) { ... }
RECURSIVE SortPass(_, _, _, _)
SortPass(s, base, max, stride) ==
    IF base < max
    THEN SortPass(SortShift(s, base, base + stride, stride, s[base + stride + 1]),
                  base + 1, max, stride)
    ELSE s

\* while (stride) { max = gidsetsize - stride; ...; stride /= 3; }
RECURSIVE SortStrides(_, _)
SortStrides(s, stride) ==
    IF stride # 0
    THEN SortStrides(SortPass(s, 0, Len(s) - stride, stride), stride \div 3)
    ELSE s

groups_sort(s) == SortStrides(s, StrideUp(1, Len(s)) \div 3)

\* --------------------------------------------------------------- is_subset
\* for (; j < g2->ngroups; j++) { gid2 = GROUP_AT(g2, j); if (gid_lte(gid1, gid2)) break; }
\* the inner loop stopping only at a larger entry (gid_lt for gid_lte)
RECURSIVE SubsetAdvance_strict(_, _, _)
SubsetAdvance_strict(g2, j, gid1) ==
    IF j < Len(g2) /\ ~(gid1 < g2[j + 1]) THEN SubsetAdvance_strict(g2, j + 1, gid1) ELSE j

RECURSIVE SubsetAdvance(_, _, _)
SubsetAdvance(g2, j, gid1) ==
    IF j < Len(g2) /\ ~(gid1 <= g2[j + 1]) THEN SubsetAdvance(g2, j + 1, gid1) ELSE j

RECURSIVE SubsetFrom(_, _, _, _)
SubsetFrom(g1, g2, i, j) ==
    IF i < Len(g1)
    THEN LET gid1 == g1[i + 1]
             jj == SubsetAdvance(g2, j, gid1)
         IN  IF jj >= Len(g2) \/ g2[jj + 1] # gid1
             THEN FALSE
             ELSE SubsetFrom(g1, g2, i + 1, jj + 1)
    ELSE TRUE

\* the comparison with its arguments exchanged
is_subset_swapped(g1, g2) == SubsetFrom(g2, g1, 0, 0)

is_subset(g1, g2) == SubsetFrom(g1, g2, 0, 0)

\* ----------------------------------------------------------- groups_search
\* the loop narrowing to right = mid - 1 where the code keeps right = mid
RECURSIVE SearchLoop_short(_, _, _, _)
SearchLoop_short(s, left, right, grp) ==
    IF left < right
    THEN LET mid == (left + right) \div 2
         IN  IF grp > s[mid + 1] THEN SearchLoop_short(s, mid + 1, right, grp)
             ELSE IF grp < s[mid + 1] THEN SearchLoop_short(s, left, mid - 1, grp)
             ELSE 1
    ELSE 0

\* while (left < right) { mid = (left+right)/2; gid_gt: left = mid + 1;
\* gid_lt: right = mid; else return 1; } return 0;
RECURSIVE SearchLoop(_, _, _, _)
SearchLoop(s, left, right, grp) ==
    IF left < right
    THEN LET mid == (left + right) \div 2
         IN  IF grp > s[mid + 1] THEN SearchLoop(s, mid + 1, right, grp)
             ELSE IF grp < s[mid + 1] THEN SearchLoop(s, left, mid, grp)
             ELSE 1
    ELSE 0

\* ------------------------------------------------ the loops, access by access
\* The three loops again, each carrying a record of what it touched: ok says
\* that every GROUP_AT so far had its index in [0, ngroups), n counts the
\* loop iterations.  A read outside the list yields 0, a write outside it is
\* dropped; ok is FALSE from then on.
InRange(s, i) == i >= 0 /\ i < Len(s)

GROUP_AT(s, i) == IF InRange(s, i) THEN s[i + 1] ELSE 0

SetGroupAt(s, i, v) == IF InRange(s, i) THEN [s EXCEPT ![i + 1] = v] ELSE s

\* gid2 before the inner loop of is_subset has assigned it
UNSET == [val |-> 0, at |-> -1]

\* the inner while loop without its left >= 0 test
RECURSIVE SortShiftAcc_nofloor(_, _, _, _, _)
SortShiftAcc_nofloor(t, left, right, stride, tmp) ==
    IF SortOutOfOrder(GROUP_AT(t.s, left), tmp)
    THEN SortShiftAcc_nofloor([s |-> SetGroupAt(t.s, right, GROUP_AT(t.s, left)),
                               ok |-> t.ok /\ InRange(t.s, left) /\ InRange(t.s, right),
                               n |-> t.n + 1],
                              left - stride, left, stride, tmp)
    ELSE [s |-> SetGroupAt(t.s, right, tmp),
          ok |-> t.ok /\ InRange(t.s, left) /\ InRange(t.s, right),
          n |-> t.n + 1]

\* while (left >= 0 && gid_gt(GROUP_AT(left), tmp)) { GROUP_AT(right) =
\* GROUP_AT(left); right = left; left -= stride; } GROUP_AT(right) = tmp;
RECURSIVE SortShiftAcc(_, _, _, _, _)
SortShiftAcc(t, left, right, stride, tmp) ==
    IF left >= 0 /\ SortOutOfOrder(GROUP_AT(t.s, left), tmp)
    THEN SortShiftAcc([s |-> SetGroupAt(t.s, right, GROUP_AT(t.s, left)),
                       ok |-> t.ok /\ InRange(t.s, left) /\ InRange(t.s, right),
                       n |-> t.n + 1],
                      left - stride, left, stride, tmp)
    ELSE [s |-> SetGroupAt(t.s, right, tmp),
          ok |-> t.ok /\ (left >= 0 => InRange(t.s, left)) /\ InRange(t.s, right),
          n |-> t.n + 1]

\* for (base = 0; base < max; base++) { tmp = GROUP_AT(base + stride); ... }
RECURSIVE SortPassAcc(_, _, _, _)
SortPassAcc(t, base, max, stride) ==
    IF base < max
    THEN SortPassAcc(SortShiftAcc([t EXCEPT !.ok = @ /\ InRange(t.s, base + stride)],
                                  base, base + stride, stride,
                                  GROUP_AT(t.s, base + stride)),
                     base + 1, max, stride)
    ELSE t

RECURSIVE SortStridesAcc(_, _)
SortStridesAcc(t, stride) ==
    IF stride # 0
    THEN SortStridesAcc(SortPassAcc([t EXCEPT !.n = @ + 1], 0, Len(t.s) - stride, stride),
                        stride \div 3)
    ELSE t

groups_sort_acc(s) ==
    SortStridesAcc([s |-> s, ok |-> TRUE, n |-> 0], StrideUp(1, Len(s)) \div 3)

\* the loop of groups_search; the result is [ret, ok, n]
RECURSIVE SearchLoopAcc(_, _, _, _, _)
SearchLoopAcc(s, left, right, grp, t) ==
    IF left < right
    THEN LET mid == (left + right) \div 2
             u == [t EXCEPT !.ok = @ /\ InRange(s, mid), !.n = @ + 1]
         IN  IF grp > GROUP_AT(s, mid) THEN SearchLoopAcc(s, mid + 1, right, grp, u)
             ELSE IF grp < GROUP_AT(s, mid) THEN SearchLoopAcc(s, left, mid, grp, u)
             ELSE [u EXCEPT !.ret = 1]
    ELSE t

groups_search_acc(s, grp) == SearchLoopAcc(s, 0, Len(s), grp, [ret |-> 0, ok |-> TRUE, n |-> 0])

\* the inner loop of is_subset; gid2 is [val, at]: its value and the index it
\* was read at; the result is [j, gid2, ok, n]
RECURSIVE SubsetAdvanceAcc(_, _, _, _)
SubsetAdvanceAcc(g2, gid1, j, t) ==
    IF j < Len(g2)
    THEN LET u == [j |-> j, gid2 |-> [val |-> GROUP_AT(g2, j), at |-> j],
                   ok |-> t.ok /\ InRange(g2, j), n |-> t.n + 1]
         IN  IF gid1 <= u.gid2.val THEN u ELSE SubsetAdvanceAcc(g2, gid1, j + 1, u)
    ELSE [t EXCEPT !.j = j]

\* the outer loop of is_subset: gid2 is declared in its body, so it starts
\* every iteration unassigned; j >= g2->ngroups || !gid_eq(gid1, gid2) reads
\* gid2 only when j is inside g2.  The result is [ret, ok, n].
RECURSIVE SubsetFromAcc(_, _, _, _, _)
SubsetFromAcc(g1, g2, i, j, t) ==
    IF i < Len(g1)
    THEN LET gid1 == GROUP_AT(g1, i)
             a == SubsetAdvanceAcc(g2, gid1, j,
                                   [j |-> j, gid2 |-> UNSET, ok |-> t.ok /\ InRange(g1, i),
                                    n |-> t.n + 1])
         IN  IF a.j >= Len(g2)
             THEN [ret |-> FALSE, ok |-> a.ok, n |-> a.n]
             ELSE LET u == [ret |-> FALSE, ok |-> a.ok /\ a.gid2.at = a.j /\ InRange(g2, a.gid2.at),
                            n |-> a.n]
                  IN  IF gid1 # a.gid2.val THEN u ELSE SubsetFromAcc(g1, g2, i + 1, a.j + 1, u)
    ELSE [t EXCEPT !.ret = TRUE]

is_subset_acc(g1, g2) == SubsetFromAcc(g1, g2, 0, 0, [ret |-> FALSE, ok |-> TRUE, n |-> 0])

\* ------------------------------------------------------------------- state
\* One task (current) and the group_info objects it can reach.
VARIABLES
    heap,     \* [Slots -> group_info]: every group_info ever allocated
    cred,     \* current->cred->group_info
    draft,    \* group_info of a prepared, unpublished cred, or NULL
    held,     \* the group_info reference the caller holds in flight, or NULL
    cap,      \* ns_capable(current_user_ns(), CAP_SETGID)
    last,     \* the last call: operation, request (the group_info, and the list as
              \* passed unless the call failed before sorting it), result,
              \* whether prepare_creds succeeded
    hist,     \* [orig, gated, imp]: the identifiers of the first set; whether only
              \* set_current_groups has replaced the credential since; the user
              \* list the current set was imported from by setgroups, as <<list>>,
              \* or <<>> when the current set has another origin
    thr,      \* [Threads -> thread]: the threads of the interleaved runs, each with
              \* its own cred, draft, held reference, position and locals
    mem       \* the allocator's view of one group_info: the container, its block
              \* pointers and the pages that are allocated

vars == <<heap, cred, draft, held, cap, last, hist, thr, mem>>

NoSlot == [state |-> "none", usage |-> 0, ngroups |-> 0, gids |-> <<>>, uaf |-> FALSE,
           pub |-> FALSE]

NoHeap == [g \in Slots |-> NoSlot]

\* a thread between calls: pc, its credential's set, its draft's set, the
\* reference it holds, the set it is about to free and where it goes on
\* after, and the locals of groups_sort
Idle(c) == [pc |-> "idle", cred |-> c, draft |-> NULL, held |-> NULL, freeing |-> NULL,
            after |-> "idle", stride |-> 0, base |-> 0, left |-> 0, right |-> 0, tmp |-> 0]

NoThreads == [t \in Threads |-> Idle(NULL)]

NoCall == [op |-> "none", ret |-> 0, req |-> NULL, raw |-> <<>>, ok |-> TRUE, out |-> <<>>]

\* ------------------------------------------------- group_info reference count
\* an access to a group_info that is not allocated (a use after free, a
\* second free) is recorded in uaf, which stays set
Touch(h, g) == IF h[g].state = "live" THEN h ELSE [h EXCEPT ![g].uaf = TRUE]

\* groups_free(): the blocks and the container go back to the allocator
groups_free(h, g) ==
    [Touch(h, g) EXCEPT ![g].state = "freed", ![g].gids = <<>>, ![g].ngroups = 0]

\* get_group_info(): atomic_inc(&gi->usage)
get_group_info(h, g) == [Touch(h, g) EXCEPT ![g].usage = @ + 1]

\* put_group_info(): if (atomic_dec_and_test(&gi->usage)) groups_free(gi)
atomic_dec(h, g) == [Touch(h, g) EXCEPT ![g].usage = @ - 1]

put_group_info(h, g) ==
    LET h1 == atomic_dec(h, g)
    IN  IF h1[g].usage = 0 THEN groups_free(h1, g) ELSE h1

\* the slot the allocator hands out next (memory that was freed is handed out
\* again), or NULL when it has none left
FreshSlot(h) ==
    IF \E g \in Slots : h[g].state # "live"
    THEN CHOOSE g \in Slots : h[g].state # "live" /\ \A k \in 1..(g - 1) : h[k].state = "live"
    ELSE NULL

\* groups_alloc(gidsetsize): NULL when kmalloc or a page allocation fails,
\* otherwise a group_info of gidsetsize unset entries with usage 1
groups_alloc(h, gidsetsize, ok) ==
    LET g == FreshSlot(h)
    IN  IF ~ok \/ g = NULL
        THEN [heap |-> h, gi |-> NULL]
        ELSE [heap |-> [h EXCEPT ![g].state = "live", ![g].usage = 1,
                                 ![g].ngroups = gidsetsize, ![g].gids = <<>>,
                                 ![g].pub = FALSE],
              gi |-> g]

\* the list is left as the caller passed it
SortInPlace_skipped(h, g) == Touch(h, g)

\* groups_sort(group_info): the Shell sort applied in place
SortInPlace(h, g) == [Touch(h, g) EXCEPT ![g].gids = groups_sort(@)]

\* ------------------------------------------------- credentials (cred.c)
\* prepare_creds(): a private copy of the current cred, with its own reference
\* to the same group_info; NULL when the allocation fails
prepare_creds(h, cur, ok) ==
    IF ok THEN [heap |-> get_group_info(h, cur), gi |-> cur]
          ELSE [heap |-> h, gi |-> NULL]

\* abort_creds(new): the draft is dropped, and with it its group_info reference
abort_creds(h, newgi) == put_group_info(h, newgi)

\* commit_creds(new): new becomes the task's cred, the old cred is released
commit_creds(h, old, newgi) ==
    [heap |-> put_group_info([h EXCEPT ![newgi].pub = TRUE], old), cred |-> newgi, ret |-> 0]

\* ------------------------------------------------------- set_groups_sorted
\* put_group_info(new->group_info); get_group_info(group_info);
\* new->group_info = group_info;
\* the installer without its get_group_info(group_info)
install_get_missing(h, g) == h

\* get_group_info(group_info): the reference the credential will hold
install_get(h, g) == get_group_info(h, g)

set_groups_sorted(h, newgi, g) ==
    [heap |-> install_get(put_group_info(h, newgi), g), gi |-> g]

\* set_groups(new, group_info)
set_groups(h, newgi, g) ==
    LET r == set_groups_sorted(SortInPlace(h, g), newgi, g)
    IN  [heap |-> r.heap, gi |-> r.gi, ret |-> 0]

\* ------------------------------------------------------ set_current_groups
\* the gate without the capability test inverted: refuses only capable callers
set_current_groups_gate(h, cur, capable, g, draftOk) ==
    LET h1 == SortInPlace(h, g)
        new == prepare_creds(h1, cur, draftOk)
    IN  IF new.gi = NULL
        THEN [heap |-> h1, cred |-> cur, ret |-> -ENOMEM]
        ELSE IF capable /\ ~is_subset(new.heap[g].gids, new.heap[new.gi].gids)
        THEN [heap |-> abort_creds(new.heap, new.gi), cred |-> cur, ret |-> -EPERM]
        ELSE LET ins == set_groups_sorted(new.heap, new.gi, g)
             IN  commit_creds(ins.heap, cur, ins.gi)

\* the refusal without abort_creds(new): the draft's reference is never dropped
set_current_groups_noabort(h, cur, capable, g, draftOk) ==
    LET h1 == SortInPlace(h, g)
        new == prepare_creds(h1, cur, draftOk)
    IN  IF new.gi = NULL
        THEN [heap |-> h1, cred |-> cur, ret |-> -ENOMEM]
        ELSE IF ~capable /\ ~is_subset(new.heap[g].gids, new.heap[new.gi].gids)
        THEN [heap |-> new.heap, cred |-> cur, ret |-> -EPERM]
        ELSE LET ins == set_groups_sorted(new.heap, new.gi, g)
             IN  commit_creds(ins.heap, cur, ins.gi)

set_current_groups(h, cur, capable, g, draftOk) ==
    LET h1 == SortInPlace(h, g)
        new == prepare_creds(h1, cur, draftOk)
    IN  IF new.gi = NULL
        THEN [heap |-> h1, cred |-> cur, ret |-> -ENOMEM]
        ELSE IF ~capable /\ ~is_subset(new.heap[g].gids, new.heap[new.gi].gids)
        THEN [heap |-> abort_creds(new.heap, new.gi), cred |-> cur, ret |-> -EPERM]
        ELSE LET ins == set_groups_sorted(new.heap, new.gi, g)
             IN  commit_creds(ins.heap, cur, ins.gi)

\* ------------------------------------------- groups_alloc, block by block
\* group_info->blocks[0] pointing at the embedded small_block
SMALL_BLOCK == 0

PageIds == 1..MaxBlocks

\* no group_info: nothing allocated
NoMem == [gi |-> NULL, usage |-> 0, ngroups |-> 0, nblocks |-> 0, blocks |-> <<>>,
          kobj |-> FALSE, pages |-> {}, bad |-> FALSE]

\* free_page(): bad records the free of something that is not an allocated page
free_page(m, p) ==
    IF p \in m.pages THEN [m EXCEPT !.pages = @ \ {p}] ELSE [m EXCEPT !.bad = TRUE]

\* kfree(group_info): the fields go with the container
kfree(m) ==
    [NoMem EXCEPT !.pages = m.pages, !.bad = m.bad \/ ~m.kobj]

\* the undo loop stopping before block 0 (--i > 0)
RECURSIVE UndoPartialAlloc_short(_, _)
UndoPartialAlloc_short(m, i) ==
    IF i - 1 > 0
    THEN UndoPartialAlloc_short(free_page(m, m.blocks[i]), i - 1)
    ELSE m

\* while (--i >= 0) free_page(group_info->blocks[i]);
RECURSIVE UndoPartialAlloc(_, _)
UndoPartialAlloc(m, i) ==
    IF i - 1 >= 0
    THEN UndoPartialAlloc(free_page(m, m.blocks[i]), i - 1)
    ELSE m

\* for (i = 0; i < nblocks; i++) { b = __get_free_page(); if (!b) goto
\* out_undo_partial_alloc; blocks[i] = b; }: the failAt-th call fails
RECURSIVE AllocPages(_, _, _)
AllocPages(m, i, failAt) ==
    IF i < m.nblocks
    THEN IF failAt = i + 1 \/ PageIds \ m.pages = {}
         THEN kfree(UndoPartialAlloc(m, i))
         ELSE LET b == CHOOSE p \in PageIds \ m.pages : \A q \in PageIds \ m.pages : p <= q
              IN  AllocPages([m EXCEPT !.blocks = Append(@, b), !.pages = @ \cup {b}],
                             i + 1, failAt)
    ELSE m

\* groups_alloc(gidsetsize) with kmalloc failing when failAt = 0 and the
\* failAt-th __get_free_page failing otherwise
groups_alloc_blocks(m, gidsetsize, failAt) ==
    LET n0 == (gidsetsize + NGROUPS_PER_BLOCK - 1) \div NGROUPS_PER_BLOCK
        nblocks == IF n0 # 0 THEN n0 ELSE 1
    IN  IF failAt = 0
        THEN m
        ELSE LET m1 == [m EXCEPT !.gi = 1, !.kobj = TRUE, !.ngroups = gidsetsize,
                                 !.nblocks = nblocks, !.usage = 1, !.blocks = <<>>]
             IN  IF gidsetsize <= NGROUPS_SMALL
                 THEN [m1 EXCEPT !.blocks = <<SMALL_BLOCK>>]
                 ELSE AllocPages(m1, 0, failAt)

\* for (i = 0; i < group_info->nblocks; i++) free_page(group_info->blocks[i]);
RECURSIVE FreeBlocks(_, _)
FreeBlocks(m, i) ==
    IF i < m.nblocks THEN FreeBlocks(free_page(m, m.blocks[i + 1]), i + 1) ELSE m

\* groups_free(group_info), block by block
groups_free_blocks(m) ==
    IF m.blocks[1] # SMALL_BLOCK THEN kfree(FreeBlocks(m, 0)) ELSE kfree(m)

\* -------------------------------------------------------- groups_from_user
\* make_kgid(user_ns, gid): a raw value the namespace does not map gives INVALID_GID
make_kgid(raw) == IF raw \in Gids THEN raw ELSE INVALID_GID

gid_valid(kgid) == kgid # INVALID_GID

\* the user buffer is a list of raw values; get_user faults past its end;
\* nread counts the calls of get_user
\* the loop reading grouplist[0] every time (grouplist for grouplist+i)
RECURSIVE FromUserAt_first(_, _, _, _)
FromUserAt_first(filled, grouplist, i, count) ==
    IF i < count
    THEN IF i >= Len(grouplist)
         THEN [gids |-> filled, ret |-> -EFAULT, nread |-> i + 1]
         ELSE LET kgid == make_kgid(grouplist[1])
              IN  IF ~gid_valid(kgid)
                  THEN [gids |-> filled, ret |-> -EINVAL, nread |-> i + 1]
                  ELSE FromUserAt_first(Append(filled, kgid), grouplist, i + 1, count)
    ELSE [gids |-> filled, ret |-> 0, nread |-> i]

RECURSIVE FromUserAt(_, _, _, _)
FromUserAt(filled, grouplist, i, count) ==
    IF i < count
    THEN IF i >= Len(grouplist)
         THEN [gids |-> filled, ret |-> -EFAULT, nread |-> i + 1]
         ELSE LET kgid == make_kgid(grouplist[i + 1])
              IN  IF ~gid_valid(kgid)
                  THEN [gids |-> filled, ret |-> -EINVAL, nread |-> i + 1]
                  ELSE FromUserAt(Append(filled, kgid), grouplist, i + 1, count)
    ELSE [gids |-> filled, ret |-> 0, nread |-> i]

groups_from_user(h, g, grouplist) ==
    LET r == FromUserAt(<<>>, grouplist, 0, h[g].ngroups)
    IN  [heap |-> [h EXCEPT ![g].gids = r.gids], ret |-> r.ret, nread |-> r.nread]

\* ---------------------------------------------------------------- setgroups
\* the check answering yes to everyone
may_setgroups_always(capable) == TRUE

\* ns_capable(user_ns, CAP_SETGID)
may_setgroups(capable) == capable

\* (unsigned)gidsetsize > NGROUPS_MAX: a negative int converts to a value of
\* at least 2^31, which is above NGROUPS_MAX
UnsignedAbove(gidsetsize, limit) == gidsetsize < 0 \/ gidsetsize > limit

\* the import failure path without put_group_info(group_info)
setgroups_leak(h, cur, capable, gidsetsize, grouplist, allocOk, draftOk) ==
    IF ~may_setgroups(capable)
    THEN [heap |-> h, cred |-> cur, ret |-> -EPERM, gi |-> NULL, nread |-> 0]
    ELSE IF UnsignedAbove(gidsetsize, NGROUPS_MAX)
    THEN [heap |-> h, cred |-> cur, ret |-> -EINVAL, gi |-> NULL, nread |-> 0]
    ELSE LET a == groups_alloc(h, gidsetsize, allocOk)
         IN  IF a.gi = NULL
             THEN [heap |-> h, cred |-> cur, ret |-> -ENOMEM, gi |-> NULL, nread |-> 0]
             ELSE LET f == groups_from_user(a.heap, a.gi, grouplist)
                  IN  IF f.ret # 0
                      THEN [heap |-> f.heap, cred |-> cur, ret |-> f.ret, gi |-> a.gi,
                            nread |-> f.nread]
                      ELSE LET r == set_current_groups(f.heap, cur, capable, a.gi, draftOk)
                           IN  [heap |-> put_group_info(r.heap, a.gi), cred |-> r.cred,
                                ret |-> r.ret, gi |-> a.gi, nread |-> f.nread]

setgroups(h, cur, capable, gidsetsize, grouplist, allocOk, draftOk) ==
    IF ~may_setgroups(capable)
    THEN [heap |-> h, cred |-> cur, ret |-> -EPERM, gi |-> NULL, nread |-> 0]
    ELSE IF UnsignedAbove(gidsetsize, NGROUPS_MAX)
    THEN [heap |-> h, cred |-> cur, ret |-> -EINVAL, gi |-> NULL, nread |-> 0]
    ELSE LET a == groups_alloc(h, gidsetsize, allocOk)
         IN  IF a.gi = NULL
             THEN [heap |-> h, cred |-> cur, ret |-> -ENOMEM, gi |-> NULL, nread |-> 0]
             ELSE LET f == groups_from_user(a.heap, a.gi, grouplist)
                  IN  IF f.ret # 0
                      THEN [heap |-> put_group_info(f.heap, a.gi), cred |-> cur,
                            ret |-> f.ret, gi |-> a.gi, nread |-> f.nread]
                      ELSE LET r == set_current_groups(f.heap, cur, capable, a.gi, draftOk)
                           IN  [heap |-> put_group_info(r.heap, a.gi), cred |-> r.cred,
                                ret |-> r.ret, gi |-> a.gi, nread |-> f.nread]

\* ---------------------------------------------------------- groups_to_user
\* from_kgid_munged(user_ns, kgid): the inverse of make_kgid; an identifier
\* the namespace does not map is reported as the overflow gid
from_kgid_munged(kgid) == IF kgid \in Gids THEN kgid ELSE 65534

\* the loop stopping one entry before the end (i < count - 1)
RECURSIVE ToUserAt_short(_, _, _, _, _)
ToUserAt_short(written, gids, i, count, room) ==
    IF i < count - 1
    THEN IF i >= room
         THEN [out |-> written, ret |-> -EFAULT]
         ELSE ToUserAt_short(Append(written, from_kgid_munged(gids[i + 1])), gids, i + 1, count, room)
    ELSE [out |-> written, ret |-> 0]

\* the destination is writable for room entries; put_user faults past them;
\* out is what has been written from grouplist[0] on
RECURSIVE ToUserAt(_, _, _, _, _)
ToUserAt(written, gids, i, count, room) ==
    IF i < count
    THEN IF i >= room
         THEN [out |-> written, ret |-> -EFAULT]
         ELSE ToUserAt(Append(written, from_kgid_munged(gids[i + 1])), gids, i + 1, count, room)
    ELSE [out |-> written, ret |-> 0]

groups_to_user(h, g, room) == ToUserAt(<<>>, h[g].gids, 0, h[g].ngroups, room)

\* ---------------------------------------------------------------- getgroups
getgroups(h, cur, gidsetsize, room) ==
    IF gidsetsize < 0
    THEN [ret |-> -EINVAL, out |-> <<>>]
    ELSE LET i == h[cur].ngroups
         IN  IF gidsetsize # 0
             THEN IF i > gidsetsize
                  THEN [ret |-> -EINVAL, out |-> <<>>]
                  ELSE LET w == groups_to_user(h, cur, room)
                       IN  IF w.ret # 0
                           THEN [ret |-> -EFAULT, out |-> w.out]
                           ELSE [ret |-> i, out |-> w.out]
             ELSE [ret |-> i, out |-> <<>>]

\* --------------------------------------------------------------------- Init
SortedLists(n) == {s \in SeqsUpTo(Gids, n) : IsSorted(s)}

\* the task starts with a credential that references a sorted set; the first
\* set is recorded for a task without CAP_SETGID
Init ==
    /\ cap \in BOOLEAN
    /\ \E s0 \in SortedLists(MaxLen) :
         /\ heap = [g \in Slots |->
                      IF g = 1
                      THEN [state |-> "live", usage |-> 1,
                            ngroups |-> Len(s0), gids |-> s0, uaf |-> FALSE, pub |-> TRUE]
                      ELSE NoSlot]
         /\ hist = [orig |-> IF cap THEN {} ELSE Elems(s0), gated |-> TRUE, imp |-> <<>>]
    /\ cred = 1
    /\ draft = NULL
    /\ held = NULL
    /\ last = NoCall
    /\ thr = NoThreads
    /\ mem = NoMem

\* the record of a call; any step that is not a call leaves NoCall
Call(op, req, raw, ret, ok) ==
    [op |-> op, ret |-> ret, req |-> req, raw |-> raw, ok |-> ok, out |-> <<>>]

\* ------------------------------------------------------------------ actions
\* a kernel caller builds a group list: groups_alloc() and GROUP_AT() stores
KernelAlloc ==
    /\ held = NULL
    /\ FreshSlot(heap) # NULL
    /\ \E s \in SeqsUpTo(Gids, MaxLen) :
         LET a == groups_alloc(heap, Len(s), TRUE)
         IN  /\ heap' = [a.heap EXCEPT ![a.gi].gids = s]
             /\ held' = a.gi
    /\ last' = NoCall
    /\ UNCHANGED <<cred, draft, cap, hist, thr, mem>>

\* get_current_groups(): a caller takes a reference to its current set
GetCurrentGroups ==
    /\ held = NULL
    /\ heap' = get_group_info(heap, cred)
    /\ held' = cred
    /\ last' = NoCall
    /\ UNCHANGED <<cred, draft, cap, hist, thr, mem>>

\* the caller drops the reference it holds
PutHeld ==
    /\ held # NULL
    /\ heap' = put_group_info(heap, held)
    /\ held' = NULL
    /\ last' = NoCall
    /\ UNCHANGED <<cred, draft, cap, hist, thr, mem>>

PrepareCreds ==
    /\ draft = NULL
    /\ \E ok \in BOOLEAN :
         LET new == prepare_creds(heap, cred, ok)
         IN  /\ heap' = new.heap
             /\ draft' = new.gi
    /\ last' = NoCall
    /\ UNCHANGED <<cred, held, cap, hist, thr, mem>>

AbortCreds ==
    /\ draft # NULL
    /\ heap' = abort_creds(heap, draft)
    /\ draft' = NULL
    /\ last' = NoCall
    /\ UNCHANGED <<cred, held, cap, hist, thr, mem>>

CommitCreds ==
    /\ draft # NULL
    /\ LET r == commit_creds(heap, cred, draft)
       IN  /\ heap' = r.heap
           /\ cred' = r.cred
    /\ draft' = NULL
    /\ last' = NoCall
    /\ hist' = [hist EXCEPT !.gated = FALSE, !.imp = <<>>]
    /\ UNCHANGED <<held, cap, thr, mem>>

\* set_groups(new, group_info) on the task's draft, with the set the caller holds
SetGroups ==
    /\ draft # NULL
    /\ held # NULL
    /\ LET r == set_groups(heap, draft, held)
       IN  /\ heap' = r.heap
           /\ draft' = r.gi
           /\ last' = Call("set_groups", held, heap[held].gids, r.ret, TRUE)
    /\ UNCHANGED <<cred, held, cap, hist, thr, mem>>

\* set_current_groups(group_info) with the set the caller holds
SetCurrentGroups ==
    /\ held # NULL
    /\ \E draftOk \in BOOLEAN :
         LET r == set_current_groups(heap, cred, cap, held, draftOk)
         IN  /\ heap' = r.heap
             /\ cred' = r.cred
             /\ last' = Call("set_current_groups", held, heap[held].gids, r.ret, draftOk)
             /\ hist' = [hist EXCEPT !.imp = IF r.ret = 0 THEN <<>> ELSE @]
    /\ UNCHANGED <<draft, held, cap, thr, mem>>

\* what a caller can pass to setgroups: a size, a user buffer of raw values
\* that holds the whole list or ends one entry short of it, and whether the
\* allocations of groups_alloc and prepare_creds succeed
SetgroupsArgs ==
    {<<n, <<>>, TRUE, TRUE>> : n \in {-1, NGROUPS_MAX + 1}}
        \cup {<<n, l, TRUE, TRUE>> : n \in 0..MaxLen, l \in SeqsUpTo(Gids \cup {INVALID_GID}, MaxLen)}
        \cup {<<Len(l), l, a, ~a>> : l \in SeqsUpTo(Gids, MaxLen), a \in BOOLEAN}

\* the setgroups system call; the record keeps the size asked for and the
\* number of get_user calls in out
Setgroups ==
    /\ \E in \in {a \in SetgroupsArgs : Len(a[2]) \in {a[1] - 1, a[1]} \/ a[1] \notin 0..MaxLen} :
         LET r == setgroups(heap, cred, cap, in[1], in[2], in[3], in[4])
         IN  /\ heap' = r.heap
             /\ cred' = r.cred
             /\ last' = [Call("setgroups", r.gi, IF r.ret = 0 THEN in[2] ELSE <<>>, r.ret, in[4])
                            EXCEPT !.out = <<in[1], r.nread>>]
             /\ hist' = [hist EXCEPT !.gated = @ /\ r.ret # 0,
                                     !.imp = IF r.ret = 0 THEN <<in[2]>> ELSE @]
    /\ UNCHANGED <<draft, held, cap, thr, mem>>

Next ==
    \/ KernelAlloc
    \/ GetCurrentGroups
    \/ PutHeld
    \/ PrepareCreds
    \/ AbortCreds
    \/ CommitCreds
    \/ SetGroups
    \/ SetCurrentGroups
    \/ Setgroups

Spec == Init /\ [][Next]_vars

\* if (!group_info) return 0; left = 0; right = group_info->ngroups; ...
groups_search(h, g, grp) ==
    IF g = NULL THEN 0 ELSE SearchLoop(h[g].gids, 0, h[g].ngroups, grp)

\* ------------------------------------------------- in_group_p, in_egroup_p
\* dumping stands for get_dumpTsk() == current
in_group_p(h, cur, fsgid, grp, dumping) ==
    IF dumping /\ (grp = AID_SDCARD_RW \/ grp = AID_SDCARD_R)
    THEN 1
    ELSE IF grp # fsgid THEN groups_search(h, cur, grp) ELSE 1

in_egroup_p(h, cur, egid, grp) ==
    IF grp # egid THEN groups_search(h, cur, grp) ELSE 1

\* ------------------------------------------- the algorithms on their own
\* groups_sort and is_subset applied to group_info objects that no credential
\* references: slot 1 holds any list, slot 2 a sorted one.
InitFn ==
    /\ MaxSets >= 2
    /\ \E a \in SeqsUpTo(Gids, MaxSortLen), b \in SortedLists(MaxSubLen) :
         heap = [g \in Slots |->
                   IF g = 1 THEN [NoSlot EXCEPT !.state = "live", !.usage = 1,
                                               !.ngroups = Len(a), !.gids = a]
                   ELSE IF g = 2 THEN [NoSlot EXCEPT !.state = "live", !.usage = 1,
                                                     !.ngroups = Len(b), !.gids = b]
                   ELSE NoSlot]
    /\ cred = NULL
    /\ draft = NULL
    /\ held = NULL
    /\ cap = FALSE
    /\ hist = [orig |-> {}, gated |-> TRUE, imp |-> <<>>]
    /\ last = NoCall
    /\ thr = NoThreads
    /\ mem = NoMem

\* groups_sort(slot 1)
FnSort ==
    /\ heap' = SortInPlace(heap, 1)
    /\ last' = Call("groups_sort", 1, heap[1].gids, 0, TRUE)
    /\ UNCHANGED <<cred, draft, held, cap, hist, thr, mem>>

\* is_subset(slot 1, slot 2), called as the gate calls it: on sorted lists
FnIsSubset ==
    /\ IsSorted(heap[1].gids)
    /\ IsSorted(heap[2].gids)
    /\ last' = Call("is_subset", 1, heap[1].gids,
                    IF is_subset(heap[1].gids, heap[2].gids) THEN 1 ELSE 0, TRUE)
    /\ UNCHANGED <<heap, cred, draft, held, cap, hist, thr, mem>>

\* is_subset(slot 1, slot 1): a sorted list against itself
FnIsSubsetSelf ==
    /\ IsSorted(heap[1].gids)
    /\ last' = Call("is_subset_self", 1, heap[1].gids,
                    IF is_subset(heap[1].gids, heap[1].gids) THEN 1 ELSE 0, TRUE)
    /\ UNCHANGED <<heap, cred, draft, held, cap, hist, thr, mem>>

\* is_subset(slot 2, slot 1): the second list in any order
FnIsSubsetAny ==
    /\ last' = Call("is_subset_any", 2, heap[2].gids,
                    IF is_subset(heap[2].gids, heap[1].gids) THEN 1 ELSE 0, TRUE)
    /\ UNCHANGED <<heap, cred, draft, held, cap, hist, thr, mem>>

\* groups_search(slot 1 or NULL, grp), whatever the order of the list
FnSearch ==
    /\ \E g \in {NULL, 1}, grp \in Gids :
         last' = Call("groups_search", g, <<grp>>, groups_search(heap, g, grp), TRUE)
    /\ UNCHANGED <<heap, cred, draft, held, cap, hist, thr, mem>>

NextFn ==
    \/ FnSort
    \/ FnIsSubset
    \/ FnIsSubsetSelf
    \/ FnIsSubsetAny
    \/ FnSearch

SpecFn == InitFn /\ [][NextFn]_vars

\* ------------------------------------------- installing a set in a draft
\* set_groups(new, new->group_info): the caller passes the set the draft
\* already references and holds no reference of its own
SetGroupsSelf ==
    /\ draft # NULL
    /\ LET r == set_groups(heap, draft, draft)
       IN  /\ heap' = r.heap
           /\ draft' = r.gi
           /\ last' = Call("set_groups_self", draft, heap[draft].gids, r.ret, TRUE)
    /\ UNCHANGED <<cred, held, cap, hist, thr, mem>>

\* no freed group_info has been used so far; what a task does after such a
\* use is not followed
Sound == \A g \in Slots : ~heap[g].uaf

\* a task that builds sets, prepares a draft and installs in it
NextInstall ==
    \/ Sound /\ KernelAlloc
    \/ Sound /\ GetCurrentGroups
    \/ Sound /\ PutHeld
    \/ Sound /\ PrepareCreds
    \/ Sound /\ AbortCreds
    \/ Sound /\ SetGroups
    \/ Sound /\ SetGroupsSelf

SpecInstall == Init /\ [][NextInstall]_vars

\* ---------------------------------------------------- the allocator's view
InitAlloc ==
    /\ heap = NoHeap
    /\ cred = NULL
    /\ draft = NULL
    /\ held = NULL
    /\ cap = FALSE
    /\ hist = [orig |-> {}, gated |-> TRUE, imp |-> <<>>]
    /\ last = NoCall
    /\ thr = NoThreads
    /\ mem = NoMem

\* the sizes asked for: every size up to one past NGROUPS_SMALL, and the
\* sizes next to each multiple of NGROUPS_PER_BLOCK that need up to MaxBlocks
\* pages
AllocSizes ==
    (0..(NGROUPS_SMALL + 1))
        \cup UNION {{(b - 1) * NGROUPS_PER_BLOCK + 1, b * NGROUPS_PER_BLOCK - 1,
                     b * NGROUPS_PER_BLOCK} : b \in 1..MaxBlocks}

\* groups_alloc(gidsetsize), each allocation in it failing or not
AllocCall ==
    /\ mem.gi = NULL
    /\ \E gidsetsize \in AllocSizes, failAt \in 0..(MaxBlocks + 1) :
         /\ mem' = groups_alloc_blocks(mem, gidsetsize, failAt)
         /\ last' = Call("groups_alloc", mem'.gi, <<gidsetsize, failAt>>, 0, mem'.gi # NULL)
    /\ UNCHANGED <<heap, cred, draft, held, cap, hist, thr>>

\* get_group_info(group_info)
AllocGet ==
    /\ mem.gi # NULL
    /\ mem.usage < 2
    /\ mem' = [mem EXCEPT !.usage = @ + 1]
    /\ last' = NoCall
    /\ UNCHANGED <<heap, cred, draft, held, cap, hist, thr>>

\* put_group_info(group_info)
AllocPut ==
    /\ mem.gi # NULL
    /\ mem' = IF mem.usage = 1 THEN groups_free_blocks([mem EXCEPT !.usage = 0])
                               ELSE [mem EXCEPT !.usage = @ - 1]
    /\ last' = Call("put_group_info", mem.gi, <<>>, 0, TRUE)
    /\ UNCHANGED <<heap, cred, draft, held, cap, hist, thr>>

NextAlloc ==
    \/ AllocCall
    \/ AllocGet
    \/ AllocPut

SpecAlloc == InitAlloc /\ [][NextAlloc]_vars

\* ------------------------------------------------ the task and its queries
\* getgroups(gidsetsize, grouplist): the destination is writable for room
\* entries, which may be fewer than the caller announces
Getgroups ==
    /\ \E gidsetsize \in -1..(MaxLen + 1), room \in 0..(MaxLen + 1) :
         LET r == getgroups(heap, cred, gidsetsize, room)
         IN  last' = [Call("getgroups", cred, <<gidsetsize, room>>, r.ret, TRUE)
                        EXCEPT !.out = r.out]
    /\ UNCHANGED <<heap, cred, draft, held, cap, hist, thr, mem>>

\* the identifiers asked about, and the primary group identifiers a
\* credential can carry (cred->fsgid, cred->egid)
QueryGids == Gids \cup {AID_SDCARD_RW, AID_SDCARD_R}

PrimaryGids == Gids \cup {AID_SDCARD_RW}

\* in_group_p(grp) in a task whose fsgid is given, dumping core or not
InGroupP ==
    /\ \E grp \in QueryGids, fsgid \in PrimaryGids, dumping \in BOOLEAN :
         last' = Call("in_group_p", cred, <<grp, fsgid>>,
                      in_group_p(heap, cred, fsgid, grp, dumping), ~dumping)
    /\ UNCHANGED <<heap, cred, draft, held, cap, hist, thr, mem>>

\* in_egroup_p(grp) in a task whose egid is given
InEgroupP ==
    /\ \E grp \in QueryGids, egid \in PrimaryGids :
         last' = Call("in_egroup_p", cred, <<grp, egid>>,
                      in_egroup_p(heap, cred, egid, grp), TRUE)
    /\ UNCHANGED <<heap, cred, draft, held, cap, hist, thr, mem>>

NextQuery ==
    \/ Setgroups
    \/ Getgroups
    \/ InGroupP
    \/ InEgroupP

SpecQuery == Init /\ [][NextQuery]_vars

\* ------------------------------------------------------ interleaved runs
\* Threads that share group sets: each takes a reference to the set of a
\* published credential or builds a list of its own, installs the set it
\* holds with prepare_creds(); set_groups(); commit_creds(), and drops its
\* reference.  One step is one atomic operation on the usage counter, one
\* pass of a loop of groups_sort, or one store.
InitConc ==
    /\ \E s0 \in SortedLists(MaxLen) :
         heap = [g \in Slots |->
                   IF g = 1 THEN [NoSlot EXCEPT !.state = "live", !.usage = NThreads,
                                               !.ngroups = Len(s0), !.gids = s0,
                                               !.pub = TRUE]
                   ELSE NoSlot]
    /\ thr = [t \in Threads |-> Idle(1)]
    /\ mem = NoMem
    /\ cred = NULL
    /\ draft = NULL
    /\ held = NULL
    /\ cap = FALSE
    /\ hist = [orig |-> {}, gated |-> TRUE, imp |-> <<>>]
    /\ last = NoCall

Seq1 == <<cred, draft, held, cap, hist, last, mem>>

\* put_group_info(g) by thread t: atomic_dec_and_test now, groups_free as the
\* thread's next step when the counter reached zero
PutStep(t, me, g, next) ==
    LET h1 == atomic_dec(heap, g)
    IN  /\ heap' = h1
        /\ thr' = [thr EXCEPT ![t] =
                     IF h1[g].usage = 0
                     THEN [me EXCEPT !.pc = "free", !.freeing = g, !.after = next]
                     ELSE [me EXCEPT !.pc = next]]

\* groups_free() of the set whose counter the thread brought to zero
TFree(t) ==
    /\ thr[t].pc = "free"
    /\ heap' = groups_free(heap, thr[t].freeing)
    /\ thr' = [thr EXCEPT ![t].pc = thr[t].after, ![t].freeing = NULL, ![t].after = "idle"]
    /\ UNCHANGED Seq1

\* the thread takes a reference to the set of thread u's published credential
TGetRef(t, u) ==
    /\ thr[t].pc = "idle" /\ thr[t].held = NULL
    /\ heap' = get_group_info(heap, thr[u].cred)
    /\ thr' = [thr EXCEPT ![t].held = thr[u].cred]
    /\ UNCHANGED Seq1

\* the thread builds a list of its own
TAlloc(t) ==
    /\ thr[t].pc = "idle" /\ thr[t].held = NULL
    /\ FreshSlot(heap) # NULL
    /\ \E s \in SeqsUpTo(Gids, MaxLen) :
         LET a == groups_alloc(heap, Len(s), TRUE)
         IN  /\ heap' = [a.heap EXCEPT ![a.gi].gids = s]
             /\ thr' = [thr EXCEPT ![t].held = a.gi]
    /\ UNCHANGED Seq1

\* the thread drops the reference it holds
TPutRef(t) ==
    /\ thr[t].pc = "idle" /\ thr[t].held # NULL
    /\ PutStep(t, [thr[t] EXCEPT !.held = NULL], thr[t].held, "idle")
    /\ UNCHANGED Seq1

\* new = prepare_creds(), then set_groups(new, held) is entered: the first
\* loop of groups_sort finds the starting stride
TPrepare(t) ==
    /\ thr[t].pc = "idle" /\ thr[t].held # NULL
    /\ heap' = prepare_creds(heap, thr[t].cred, TRUE).heap
    /\ thr' = [thr EXCEPT ![t].pc = "sort", ![t].draft = thr[t].cred,
                          ![t].stride = StrideUp(1, heap[thr[t].held].ngroups) \div 3,
                          ![t].base = 0]
    /\ UNCHANGED Seq1

\* groups_sort: the tests of while (stride) and for (base < max), and the
\* load of tmp
TSortLoad(t) ==
    LET me == thr[t]
        gi == heap[me.held]
    IN  /\ me.pc = "sort"
        /\ thr' = [thr EXCEPT ![t] =
                     IF me.stride = 0
                     THEN [me EXCEPT !.pc = "ins_put", !.base = 0]
                     ELSE IF me.base < gi.ngroups - me.stride
                     THEN [me EXCEPT !.pc = "shift", !.left = me.base,
                                     !.right = me.base + me.stride,
                                     !.tmp = gi.gids[me.base + me.stride + 1]]
                     ELSE [me EXCEPT !.stride = me.stride \div 3, !.base = 0]]
        /\ heap' = Touch(heap, me.held)
        /\ UNCHANGED Seq1

\* groups_sort: one pass of the inner while loop, or the store of tmp after it
TSortShift(t) ==
    LET me == thr[t]
        gi == heap[me.held]
    IN  /\ me.pc = "shift"
        /\ IF me.left >= 0 /\ SortOutOfOrder(gi.gids[me.left + 1], me.tmp)
           THEN /\ heap' = [Touch(heap, me.held) EXCEPT
                              ![me.held].gids[me.right + 1] = gi.gids[me.left + 1]]
                /\ thr' = [thr EXCEPT ![t].right = me.left, ![t].left = me.left - me.stride]
           ELSE /\ heap' = [Touch(heap, me.held) EXCEPT ![me.held].gids[me.right + 1] = me.tmp]
                /\ thr' = [thr EXCEPT ![t].pc = "sort", ![t].base = me.base + 1,
                                      ![t].left = 0, ![t].right = 0, ![t].tmp = 0]
        /\ UNCHANGED Seq1

\* set_groups_sorted: put_group_info(new->group_info)
TInsPut(t) ==
    /\ thr[t].pc = "ins_put"
    /\ PutStep(t, thr[t], thr[t].draft, "ins_get")
    /\ UNCHANGED Seq1

\* set_groups_sorted: get_group_info(group_info)
TInsGet(t) ==
    /\ thr[t].pc = "ins_get"
    /\ heap' = install_get(heap, thr[t].held)
    /\ thr' = [thr EXCEPT ![t].pc = "ins_store"]
    /\ UNCHANGED Seq1

\* set_groups_sorted: new->group_info = group_info
TInsStore(t) ==
    /\ thr[t].pc = "ins_store"
    /\ thr' = [thr EXCEPT ![t].pc = "commit", ![t].draft = thr[t].held]
    /\ UNCHANGED <<heap, cred, draft, held, cap, hist, last, mem>>

\* commit_creds(new): the draft is published and the old cred released
TCommit(t) ==
    /\ thr[t].pc = "commit"
    /\ LET h1 == atomic_dec([heap EXCEPT ![thr[t].draft].pub = TRUE], thr[t].cred)
           me == [thr[t] EXCEPT !.cred = thr[t].draft, !.draft = NULL]
       IN  /\ heap' = h1
           /\ thr' = [thr EXCEPT ![t] =
                        IF h1[thr[t].cred].usage = 0
                        THEN [me EXCEPT !.pc = "free", !.freeing = thr[t].cred, !.after = "idle"]
                        ELSE [me EXCEPT !.pc = "idle"]]
    /\ UNCHANGED Seq1

NextConc ==
    \E t \in Threads :
        \/ \E u \in Threads : TGetRef(t, u)
        \/ TAlloc(t)
        \/ TPutRef(t)
        \/ TPrepare(t)
        \/ TSortLoad(t)
        \/ TSortShift(t)
        \/ TInsPut(t)
        \/ TInsGet(t)
        \/ TInsStore(t)
        \/ TCommit(t)
        \/ TFree(t)

SpecConc == InitConc /\ [][NextConc]_vars

\* the references thread t holds to g: its credential, the one in flight, its
\* draft (until set_groups_sorted has dropped the draft's old set) and the
\* one set_groups_sorted has taken for the draft but not stored yet
ThreadRefs(t, g) ==
    (IF thr[t].cred = g THEN 1 ELSE 0)
      + (IF thr[t].held = g THEN 1 ELSE 0)
      + (IF thr[t].held = g /\ thr[t].pc = "ins_store" THEN 1 ELSE 0)
      + (IF thr[t].draft = g
            /\ ~(thr[t].pc \in {"ins_get", "ins_store"})
            /\ ~(thr[t].pc = "free" /\ thr[t].after = "ins_get")
         THEN 1 ELSE 0)

RECURSIVE SumRefs(_, _)
SumRefs(T, g) ==
    IF T = {} THEN 0
    ELSE LET t == CHOOSE x \in T : TRUE IN ThreadRefs(t, g) + SumRefs(T \ {t}, g)

Refs(g) == SumRefs(Threads, g)

\* ================================================================== claims
\* a step that is a call of set_current_groups by the caller, and its request
IsGateCall == last'.op = "set_current_groups"

\* the request holds an identifier that the caller's current set lacks
AsksForMore == ~(Elems(heap[held].gids) \subseteq Elems(heap[cred].gids))

\* the call left the credential, and the set it references, as they were
CredKept ==
    /\ cred' = cred
    /\ heap'[cred].state = "live"
    /\ heap'[cred].gids = heap[cred].gids
    /\ heap'[cred].usage = heap[cred].usage

\* C1 as stated: an unprivileged set_current_groups whose request holds an
\* identifier absent from the current set returns -EPERM, drops the draft
\* and leaves the current credential on the same set with the same contents.
C1_AlwaysEperm ==
    [][(IsGateCall /\ ~cap /\ AsksForMore) => (last'.ret = -EPERM /\ CredKept)]_vars

\* C1 amended: such a call returns -EPERM when prepare_creds gave a draft and
\* -ENOMEM when it did not; either way no draft reference is left and the
\* current credential references the same set with the same contents.
C1_EpermOrEnomem ==
    [][(IsGateCall /\ ~cap /\ AsksForMore)
         => (last'.ret = (IF last'.ok THEN -EPERM ELSE -ENOMEM) /\ CredKept)]_vars

\* an unprivileged request for an identifier the caller lacks was refused
C1_Witness ==
    /\ last.op = "set_current_groups" /\ last.ret = -EPERM /\ ~cap
    /\ ~(Elems(heap[held].gids) \subseteq Elems(heap[cred].gids))

\* C2: while only set_current_groups has replaced the credential of a task
\* without CAP_SETGID, every identifier of its current set was in its first set.
C2_NeverGains == (~cap /\ hist.gated) => Elems(heap[cred].gids) \subseteq hist.orig

\* an unprivileged caller replaced its set by a smaller one through the gate
C2_Witness ==
    /\ ~cap /\ hist.gated
    /\ last.op = "set_current_groups" /\ last.ret = 0
    /\ cred = last.req
    /\ Elems(heap[cred].gids) # hist.orig

\* the request of this step allowed by the rule of the gate
Permitted == cap \/ Elems(heap[held].gids) \subseteq Elems(heap[cred].gids)

\* C3 as stated: with a draft, a privileged caller, or an unprivileged one
\* whose request names only identifiers of its current set (repeated or not),
\* succeeds, and the request, sorted, becomes its current set.
C3_PermittedSucceeds ==
    [][(IsGateCall /\ last'.ok /\ Permitted)
         => /\ last'.ret = 0
            /\ cred' = held
            /\ IsSorted(heap'[held].gids)
            /\ SameMultiset(heap'[held].gids, heap[held].gids)]_vars

\* C5: the set a published credential references is in non-decreasing order.
C5_PublishedSorted == heap[cred].state = "live" /\ IsSorted(heap[cred].gids)

\* a list passed out of order was installed and published
C5_Witness ==
    /\ last.op = "set_current_groups" /\ last.ret = 0
    /\ ~IsSorted(last.raw)
    /\ cred = last.req

\* a step that is a failing call of set_current_groups or of setgroups
IsFailedCall == last'.op \in {"set_current_groups", "setgroups"} /\ last'.ret # 0

\* C8 as stated: a failing call leaves the credential on the same set, and
\* every set that existed before it, the request included, with the same
\* contents and reference count.
C8_FailureChangesNothing ==
    [][IsFailedCall
         => /\ cred' = cred
            /\ \A g \in Slots : heap[g].state = "live" => heap'[g] = heap[g]]_vars

\* C8 amended: a failing call leaves the credential on the same set, and every
\* set that existed before it with the same reference count and contents,
\* except that set_current_groups leaves its request sorted (the same
\* identifiers, in non-decreasing order).
C8_FailureKeepsAllButOrder ==
    [][IsFailedCall
         => /\ cred' = cred
            /\ \A g \in Slots :
                 heap[g].state = "live"
                   => /\ heap'[g].state = "live"
                      /\ heap'[g].usage = heap[g].usage
                      /\ heap'[g].ngroups = heap[g].ngroups
                      /\ IF last'.op = "set_current_groups" /\ g = held
                         THEN /\ IsSorted(heap'[g].gids)
                              /\ SameMultiset(heap'[g].gids, heap[g].gids)
                         ELSE heap'[g].gids = heap[g].gids]_vars

\* a refused request that was passed out of order
C8_Witness ==
    /\ last.op = "set_current_groups" /\ last.ret = -EPERM
    /\ ~IsSorted(last.raw)
    /\ heap[held].gids # last.raw

\* the credentials that reference g
CredRefs(g) == IF cred = g THEN 1 ELSE 0

\* C9: when setgroups returns after groups_alloc succeeded, the reference of
\* the allocation has been dropped once: the set's usage is the number of
\* credentials that reference it, and the set is freed iff that number is 0.
C9_AllocRefReleased ==
    (last.op = "setgroups" /\ last.req # NULL)
      => /\ ~heap[last.req].uaf
         /\ heap[last.req].usage = CredRefs(last.req)
         /\ (heap[last.req].state = "freed") = (CredRefs(last.req) = 0)
         /\ (heap[last.req].state = "live") = (CredRefs(last.req) # 0)

\* setgroups met an identifier the namespace does not map, after allocating
C9_Witness ==
    /\ last.op = "setgroups" /\ last.req # NULL /\ last.ret = -EINVAL
    /\ heap[last.req].state = "freed"

\* C4 as stated: for sorted A and B, repeats allowed, is_subset(A, B) is true
\* iff every element of A appears in B.
C4_SubsetIffAllAppear ==
    last.op = "is_subset"
      => ((last.ret = 1) = (Elems(heap[1].gids) \subseteq Elems(heap[2].gids)))

\* C10: groups_sort leaves the list in non-decreasing order with the same
\* multiset of values, and a list already in order is left as it was
\* (sorting the result again gives the result).
C10_SortOrdersAndKeeps ==
    last.op = "groups_sort"
      => /\ IsSorted(heap[last.req].gids)
         /\ SameMultiset(heap[last.req].gids, last.raw)
         /\ groups_sort(heap[last.req].gids) = heap[last.req].gids
         /\ (IsSorted(last.raw) => heap[last.req].gids = last.raw)

\* a list long enough for the stride of 4, out of order and with a repeat
C10_Witness ==
    /\ last.op = "groups_sort"
    /\ Len(last.raw) >= 5
    /\ last.raw[5] < last.raw[1]
    /\ Cardinality(Elems(last.raw)) < Len(last.raw)
    /\ heap[last.req].gids # last.raw

\* C6: with threads installing a shared set and dropping references to it
\* under atomic counting, a set is freed only by the thread that brought its
\* counter to zero, never while a credential, a draft or a caller in flight
\* holds a reference to it, and never twice (no access to freed memory).
C6_FreedOnlyAtZero ==
    /\ \A g \in Slots :
         /\ ~heap[g].uaf
         /\ Refs(g) > 0 => (heap[g].state = "live" /\ heap[g].usage = Refs(g))
    /\ \A t \in Threads :
         thr[t].pc = "free"
           => /\ heap[thr[t].freeing].state = "live"
              /\ heap[thr[t].freeing].usage = 0
              /\ Refs(thr[t].freeing) = 0
              /\ \A u \in Threads \ {t} :
                   thr[u].pc = "free" => thr[u].freeing # thr[t].freeing

\* the first set was destroyed after every credential left it, and two
\* threads are inside set_groups_sorted with the same set
C6_Witness ==
    /\ heap[1].state = "freed"
    /\ thr[1].pc = "ins_get" /\ thr[2].pc = "ins_get"
    /\ thr[1].held = thr[2].held

\* C7: no step changes an element of a set that a committed credential has
\* referenced, the passes of groups_sort over such a set included.
C7_PublishedNeverWritten ==
    [][\A g \in Slots :
         (heap[g].state = "live" /\ heap[g].pub /\ heap'[g].state = "live")
           => heap'[g].gids = heap[g].gids]_vars

\* a thread is inside the inner loop of groups_sort on a set of two or more
\* elements that another thread's committed credential references
C7_Witness ==
    /\ thr[1].pc = "shift"
    /\ heap[thr[1].held].pub
    /\ heap[thr[1].held].ngroups >= 2
    /\ thr[2].cred = thr[1].held

\* C11: on a sorted list, duplicates allowed, groups_search answers 1 exactly
\* when the identifier occurs in the list; on a NULL group_info and on an
\* empty list it answers 0.
C11_SearchFindsExactly ==
    last.op = "groups_search" =>
        /\ last.ret \in {0, 1}
        /\ last.req = NULL => last.ret = 0
        /\ (last.req # NULL /\ IsSorted(heap[last.req].gids)) =>
              ((last.ret = 1) <=> (last.raw[1] \in Elems(heap[last.req].gids)))
        /\ (last.req # NULL /\ heap[last.req].ngroups = 0) => last.ret = 0

\* an identifier found in a sorted list of four or more entries with a duplicate
C11_Witness ==
    /\ last.op = "groups_search"
    /\ last.req # NULL
    /\ last.ret = 1
    /\ IsSorted(heap[last.req].gids)
    /\ Len(heap[last.req].gids) >= 4
    /\ Cardinality(Elems(heap[last.req].gids)) < Len(heap[last.req].gids)
    /\ Cardinality(Elems(heap[last.req].gids)) = MaxGid

\* C17: is_subset of a sorted list against itself answers true, repeated
\* entries included; is_subset of the empty list against any list, the empty
\* one included, answers true.
C17_SelfAndEmpty ==
    /\ last.op = "is_subset_self" => last.ret = 1
    /\ (last.op \in {"is_subset", "is_subset_any"} /\ last.raw = <<>>) => last.ret = 1

\* a list with a repeated entry and a second identifier, tested against itself
C17_Witness ==
    /\ last.op = "is_subset_self"
    /\ last.ret = 1
    /\ Len(last.raw) >= 3
    /\ Cardinality(Elems(last.raw)) = MaxGid
    /\ Cardinality(Elems(last.raw)) < Len(last.raw)

\* the two lists of the last is_subset call
SubsetFirst == IF last.op = "is_subset_any" THEN heap[2].gids ELSE heap[1].gids

SubsetSecond == IF last.op = "is_subset" THEN heap[2].gids ELSE heap[1].gids

\* C19: on every list, sorted or not, empty or not, groups_sort,
\* groups_search and is_subset finish within a number of iterations bounded
\* by the lengths, read and write only indices in [0, ngroups), and is_subset
\* compares gid1 only with a gid2 it read at index j of the second list in
\* the same iteration; the walk so recorded gives the result of the call.
C19_LoopsStayInside ==
    /\ last.op = "groups_sort" =>
          LET t == groups_sort_acc(last.raw)
          IN  t.ok /\ t.s = heap[1].gids /\ t.n <= Len(last.raw) * Len(last.raw) + 1
    /\ (last.op = "groups_search" /\ last.req # NULL) =>
          LET t == groups_search_acc(heap[last.req].gids, last.raw[1])
          IN  t.ok /\ t.ret = last.ret /\ t.n <= Len(heap[last.req].gids)
    /\ last.op \in {"is_subset", "is_subset_self", "is_subset_any"} =>
          LET t == is_subset_acc(SubsetFirst, SubsetSecond)
          IN  t.ok /\ (t.ret <=> last.ret = 1) /\ t.n <= Len(SubsetFirst) + Len(SubsetSecond)

\* is_subset ran out of an unsorted second list after matching an element
C19_Witness ==
    /\ last.op = "is_subset_any"
    /\ ~IsSorted(heap[1].gids)
    /\ Len(heap[2].gids) >= 2
    /\ heap[2].gids[1] \in Elems(heap[1].gids)
    /\ last.ret = 0

\* C12: getgroups on a buffer of N entries (N >= 0, all N writable) returns
\* the count and writes nothing when N = 0; returns -EINVAL and writes nothing
\* when N > 0 and the count exceeds N; otherwise writes the count identifiers
\* of the current set, in stored order, at positions 0..count-1 and returns
\* the count.
C12_GetgroupsByCapacity ==
    (last.op = "getgroups" /\ last.raw[1] >= 0 /\ last.raw[2] >= last.raw[1]) =>
        LET N == last.raw[1]
            count == heap[cred].ngroups
        IN  /\ N = 0 => (last.ret = count /\ last.out = <<>>)
            /\ (N > 0 /\ count > N) => (last.ret = -EINVAL /\ last.out = <<>>)
            /\ (N > 0 /\ count <= N) => (last.ret = count /\ last.out = heap[cred].gids)

\* two identifiers written to a buffer with room to spare
C12_Witness ==
    /\ last.op = "getgroups"
    /\ last.raw[1] > heap[cred].ngroups
    /\ last.raw[2] >= last.raw[1]
    /\ last.ret = 2
    /\ Len(last.out) = 2
    /\ last.out[1] # last.out[2]

\* C13: setgroups returns -EPERM to a caller without CAP_SETGID whatever the
\* size and the list, and -EINVAL to a capable caller whose size is negative
\* or above NGROUPS_MAX; in both cases it allocates no group_info, calls
\* get_user not once, and leaves the heap and the credential as they were.
C13_RefusedBeforeAnyWork ==
    [][(last'.op = "setgroups"
          /\ (~cap \/ last'.out[1] < 0 \/ last'.out[1] > NGROUPS_MAX)) =>
         /\ last'.ret = (IF ~cap THEN -EPERM ELSE -EINVAL)
         /\ last'.req = NULL
         /\ last'.out[2] = 0
         /\ heap' = heap
         /\ cred' = cred]_vars

\* a caller without the capability refused although the list it asks for is
\* empty, hence within its current set
C13_Witness ==
    /\ last.op = "setgroups"
    /\ ~cap
    /\ last.out[1] = 0
    /\ last.ret = -EPERM
    /\ heap[cred].ngroups > 0

\* a capable caller refused for a size above NGROUPS_MAX
C13_WitnessSize ==
    /\ last.op = "setgroups"
    /\ cap
    /\ last.out[1] > NGROUPS_MAX
    /\ last.ret = -EINVAL

\* what is allocated: the container and the pages
LiveAllocs == Cardinality(mem.pages) + (IF mem.kobj THEN 1 ELSE 0)

\* the pages a group_info of k entries owns
PagesFor(k) ==
    IF k <= NGROUPS_SMALL THEN 0 ELSE (k + NGROUPS_PER_BLOCK - 1) \div NGROUPS_PER_BLOCK

\* C14: for every size, at or below NGROUPS_SMALL and above it, and every
\* allocation that can fail, groups_alloc returns a group_info with usage 1
\* that owns the container and one page per block (none when it uses
\* small_block), or returns NULL with nothing left allocated; the last
\* put_group_info frees each of these pages and the container once, never
\* small_block, and nothing is left allocated.
C14_AllocatedThenFreed ==
    /\ ~mem.bad
    /\ mem.gi = NULL => LiveAllocs = 0
    /\ mem.gi # NULL =>
          /\ mem.usage >= 1
          /\ mem.kobj
          /\ LiveAllocs = 1 + PagesFor(mem.ngroups)
          /\ mem.ngroups <= NGROUPS_SMALL => mem.blocks = <<SMALL_BLOCK>>
          /\ mem.ngroups > NGROUPS_SMALL =>
                /\ Len(mem.blocks) = mem.nblocks
                /\ {mem.blocks[k] : k \in 1..mem.nblocks} = mem.pages
                /\ Cardinality(mem.pages) = mem.nblocks
    /\ last.op = "groups_alloc" =>
          /\ last.req # NULL => (mem.usage = 1 /\ mem.ngroups = last.raw[1])
          /\ (last.req = NULL) <=> (last.raw[2] = 0 \/ last.raw[2] <= PagesFor(last.raw[1]))

\* the second page of a two-page set could not be had: the first page and
\* the container were given back
C14_Witness ==
    /\ last.op = "groups_alloc"
    /\ last.raw[1] > NGROUPS_PER_BLOCK
    /\ last.raw[2] = 2
    /\ mem.gi = NULL
    /\ LiveAllocs = 0

\* the answer the membership queries are to give: the identifier is the
\* primary one of the query or is in the current set
IsMember == last.raw[1] = last.raw[2] \/ last.raw[1] \in Elems(heap[cred].gids)

\* C15: in_group_p and in_egroup_p answer 1 exactly when the identifier is
\* the primary group identifier of the query or is in the current group set,
\* in every context of the task.
C15_MemberIffPrimaryOrInSet ==
    last.op \in {"in_group_p", "in_egroup_p"} => ((last.ret = 1) <=> IsMember)

\* in_egroup_p, and in_group_p in a task that is not dumping core (recorded
\* in ok), do answer so
C15_OutsideCoredump ==
    (last.op \in {"in_group_p", "in_egroup_p"} /\ last.ok) => ((last.ret = 1) <=> IsMember)

\* C16: after a successful setgroups of a list of valid identifiers,
\* getgroups into a buffer that holds the whole set returns the length of the
\* list and writes its identifiers in non-decreasing order, each as many
\* times as the list has it.
C16_RoundTrip ==
    (/\ last.op = "getgroups"
     /\ hist.imp # <<>>
     /\ last.raw[1] >= heap[cred].ngroups
     /\ last.raw[2] >= heap[cred].ngroups) =>
        /\ last.ret = Len(hist.imp[1])
        /\ last.raw[1] > 0 =>
              /\ IsSorted(last.out)
              /\ SameMultiset(last.out, hist.imp[1])

\* a list passed out of order comes back in order
C16_Witness ==
    /\ last.op = "getgroups"
    /\ hist.imp # <<>>
    /\ ~IsSorted(hist.imp[1])
    /\ last.ret = Len(hist.imp[1])
    /\ last.out # hist.imp[1]
    /\ Len(last.out) = Len(hist.imp[1])

\* a list with a repeated identifier comes back with both entries
C16_WitnessRepeated ==
    /\ last.op = "getgroups"
    /\ hist.imp # <<>>
    /\ Len(hist.imp[1]) = 2
    /\ hist.imp[1][1] = hist.imp[1][2]
    /\ last.out = hist.imp[1]

\* C18: set_groups_sorted takes the reference on the set it installs before
\* it drops the reference on the set the credential held, so after any
\* install, that of the set the draft already holds as its only owner
\* included, the draft references a live set that the install did not free
\* and whose count includes the draft's reference.
C18_InstallKeepsSetLive ==
    last.op \in {"set_groups", "set_groups_self"} =>
        /\ heap[draft].state = "live"
        /\ ~heap[draft].uaf
        /\ heap[draft].usage >= 1

====
